---- MODULE Spec2Model ----
(***************************************************************************)
(* A model of the rust_matrix crate: the epsilon-tolerant scalar           *)
(* (MatrixElement), the dense Matrix with its in-place row primitives, the *)
(* partial-pivot elimination engine (_row_echelon, _to_rref) and the       *)
(* operations derived from it (lup_decomposition, det, inverse).           *)
(*                                                                         *)
(* A MatrixElement wraps an f64.  The model keeps the value as an exact    *)
(* rational <<n, d>> in lowest terms (d > 0): every input the model draws  *)
(* is a small integer or a negative power of two, all of them exact f64    *)
(* values, and the comparisons against the tolerance 10e-8 are computed    *)
(* exactly.  Rounding of intermediate results is not modelled.             *)
(* Indices are 0-based as in the source: a row is a function on 0..n-1.    *)
(* A Result is a record whose field err is "Ok" or the name of the error.  *)
(* A value that is bound once in the source and read several times is the  *)
(* parameter of a local operator, so that it is written once here too.     *)
(***************************************************************************)
EXTENDS Integers, Sequences, FiniteSets, TLC

\* ------------------------------------------------------------------------
\* MatrixElement (src/src/element.rs)
\* ------------------------------------------------------------------------

\* The tolerance of epsilon_equals is 10e-8 = 1 / EpsilonDen.
EpsilonDen == 10000000

Abs(x) == IF x < 0 THEN -x ELSE x

RECURSIVE Gcd(_, _)
Gcd(a, b) == IF b = 0 THEN a ELSE Gcd(b, a % b)

\* Numerators and denominators are kept below NumLimit, so that no product
\* or sum of the model leaves the range of the numerals.  A result that
\* does not fit is OutOfRange; a call is explored only when every value it
\* computes fits (see Exact).
NumLimit == 2^30 - 1

\* Two values that are no MatrixElement, told from one by a zero
\* denominator: what a panicking scalar operation leaves behind, and a
\* result beyond NumLimit.  Every operation hands them on.
Panicked == <<0, 0>>
OutOfRange == <<1, 0>>

IsNum(a) == a[2] # 0

\* |x * y| <= NumLimit, decided without forming the product
Fits(x, y) == y = 0 \/ Abs(x) <= NumLimit \div Abs(y)

\* The rational n/d in lowest terms with a positive denominator (d # 0).
Rat(n, d) ==
    LET g == Gcd(Abs(n), Abs(d))
        s == IF d < 0 THEN -1 ELSE 1
    IN  IF n = 0 THEN <<0, 1>>
        ELSE IF Abs(n) > NumLimit THEN OutOfRange
        ELSE <<s * (n \div g), s * (d \div g)>>

\* MatrixElement::from(i32)
FromInt(k) == <<k, 1>>

\* MatrixElement::zero / MatrixElement::one
zero == <<0, 1>>
one == <<1, 1>>

\* impl Add for MatrixElement
ElemAdd(a, b) ==
    IF ~IsNum(a) THEN a
    ELSE IF ~IsNum(b) THEN b
    ELSE LET g == Gcd(a[2], b[2])
             x == b[2] \div g
             y == a[2] \div g
         IN  IF Fits(a[1], x) /\ Fits(b[1], y) /\ Fits(a[2], x)
             THEN Rat(a[1] * x + b[1] * y, a[2] * x)
             ELSE OutOfRange

\* impl Sub for MatrixElement
ElemSub(a, b) == IF ~IsNum(b) THEN b ELSE ElemAdd(a, <<-b[1], b[2]>>)

\* impl Mul for MatrixElement
ElemMul(a, b) ==
    IF ~IsNum(a) THEN a
    ELSE IF ~IsNum(b) THEN b
    ELSE IF a[1] = 0 \/ b[1] = 0 THEN zero
    ELSE LET g1 == Gcd(Abs(a[1]), b[2])
             g2 == Gcd(Abs(b[1]), a[2])
         IN  IF Fits(a[1] \div g1, b[1] \div g2) /\ Fits(a[2] \div g2, b[2] \div g1)
             THEN <<(a[1] \div g1) * (b[1] \div g2), (a[2] \div g2) * (b[2] \div g1)>>
             ELSE OutOfRange

\* Comparisons are decided exactly for any two values below NumLimit.  When
\* the cross products n1 * d2 and n2 * d1 do not fit the numerals they are
\* formed as naturals in base LimbBase, least significant limb first.
LimbBase == 2^15

RECURSIVE WFromNat(_)
WFromNat(x) == IF x = 0 THEN <<>> ELSE <<x % LimbBase>> \o WFromNat(x \div LimbBase)

RECURSIVE WMulLimb(_, _, _)
WMulLimb(w, k, carry) ==
    IF w = <<>> THEN WFromNat(carry)
    ELSE LET v == Head(w) * k + carry
         IN  <<v % LimbBase>> \o WMulLimb(Tail(w), k, v \div LimbBase)

RECURSIVE WAdd(_, _, _)
WAdd(u, w, carry) ==
    IF u = <<>> /\ w = <<>> THEN WFromNat(carry)
    ELSE LET v == (IF u = <<>> THEN 0 ELSE Head(u)) + (IF w = <<>> THEN 0 ELSE Head(w)) + carry
         IN  <<v % LimbBase>>
             \o WAdd(IF u = <<>> THEN u ELSE Tail(u), IF w = <<>> THEN w ELSE Tail(w),
                     v \div LimbBase)

RECURSIVE WMul(_, _)
WMul(u, w) ==
    IF w = <<>> THEN <<>>
    ELSE WAdd(WMulLimb(u, Head(w), 0), <<0>> \o WMul(u, Tail(w)), 0)

\* -1, 0 or 1 as u is less than, equal to or greater than w
RECURSIVE WCmp(_, _)
WCmp(u, w) ==
    IF u = <<>> /\ w = <<>> THEN 0
    ELSE LET hi == WCmp(IF u = <<>> THEN u ELSE Tail(u), IF w = <<>> THEN w ELSE Tail(w))
             x == IF u = <<>> THEN 0 ELSE Head(u)
             y == IF w = <<>> THEN 0 ELSE Head(w)
         IN  IF hi # 0 THEN hi ELSE IF x < y THEN -1 ELSE IF x > y THEN 1 ELSE 0

\* u - w for u >= w
RECURSIVE WSub(_, _, _)
WSub(u, w, borrow) ==
    IF u = <<>> THEN <<>>
    ELSE LET v == Head(u) - (IF w = <<>> THEN 0 ELSE Head(w)) - borrow
         IN  <<v % LimbBase>>
             \o WSub(Tail(u), IF w = <<>> THEN w ELSE Tail(w), IF v < 0 THEN 1 ELSE 0)

\* |X - Y| for naturals X and Y
WDiff(X, Y) == IF WCmp(X, Y) >= 0 THEN WSub(X, Y, 0) ELSE WSub(Y, X, 0)

\* Compare for cross products beyond the numerals: X = |a| * D and
\* Y = |b| * D for the common denominator D, as naturals.
CompareWide(a, b, X, Y, D) ==
    [sign  |-> IF (a[1] >= 0) # (b[1] >= 0) THEN (IF a[1] >= 0 THEN 1 ELSE -1)
               ELSE (IF a[1] >= 0 THEN 1 ELSE -1) * WCmp(X, Y),
     small |-> WCmp(WMul(IF (a[1] >= 0) # (b[1] >= 0) THEN WAdd(X, Y, 0) ELSE WDiff(X, Y),
                         WFromNat(EpsilonDen)),
                    D) < 0]

\* Compare on the common denominator a[2] * x = b[2] * y
CompareScaled(a, b, x, y) ==
    IF Fits(a[1], x) /\ Fits(b[1], y) /\ Fits(a[2], x)
    THEN [sign  |-> IF a[1] * x < b[1] * y THEN -1
                    ELSE IF a[1] * x > b[1] * y THEN 1 ELSE 0,
          small |-> /\ Abs(a[1] * x - b[1] * y) <= 200
                    /\ Abs(a[1] * x - b[1] * y) * EpsilonDen < a[2] * x]
    ELSE CompareWide(a, b,
                     WMul(WFromNat(Abs(a[1])), WFromNat(x)),
                     WMul(WFromNat(Abs(b[1])), WFromNat(y)),
                     WMul(WFromNat(a[2]), WFromNat(x)))

\* The sign of a - b, and whether |a - b| < 1 / EpsilonDen.
Compare(a, b) ==
    CompareScaled(a, b, b[2] \div Gcd(a[2], b[2]), a[2] \div Gcd(a[2], b[2]))

\* MatrixElement::epsilon_equals: (self.data - other.data).abs() < 10e-8
epsilon_equals(a, b) == IsNum(a) /\ IsNum(b) /\ Compare(a, b).small

\* MatrixElement::is_zero
is_zero(a) == epsilon_equals(a, zero)

\* MatrixElement::is_one
is_one(a) == epsilon_equals(a, one)

\* self < other on the wrapped f64 (derived PartialOrd)
ElemLt(a, b) == IsNum(a) /\ IsNum(b) /\ Compare(a, b).sign < 0

\* MatrixElement::negate: zero - self
negate(a) == ElemSub(zero, a)

\* MatrixElement::abs
abs(a) == IF ElemLt(a, zero) THEN negate(a) ELSE a

\* MatrixElement::epsilon_cmp
epsilon_cmp(a, b) ==
    IF epsilon_equals(a, b) THEN "Equal"
    ELSE IF ElemLt(a, b) THEN "Less"
    ELSE "Greater"

\* MatrixElement::epsilon_gt
epsilon_gt(a, b) == epsilon_cmp(a, b) = "Greater"

\* impl Div for MatrixElement: panics when the divisor is epsilon-zero.
ElemDiv(a, b) ==
    IF ~IsNum(a) THEN a
    ELSE IF ~IsNum(b) THEN b
    ELSE IF is_zero(b) THEN Panicked
    ELSE ElemMul(a, IF b[1] < 0 THEN <<-b[2], -b[1]>> ELSE <<b[2], b[1]>>)

\* MatrixElement::inverse: panics when self is epsilon-zero, else one / self.
inverse_elem(a) == IF is_zero(a) THEN Panicked ELSE ElemDiv(one, a)

\* ------------------------------------------------------------------------
\* Vector (src/src/vector.rs): a function on 0..len-1
\* ------------------------------------------------------------------------

Min(a, b) == IF a < b THEN a ELSE b

Len0(v) == Cardinality(DOMAIN v)

\* Vector::zero
Vector_zero(len) == [i \in 0..(len - 1) |-> zero]

\* Vector::scale
Vector_scale(v, scalar) == [i \in DOMAIN v |-> ElemMul(v[i], scalar)]

\* Vector::add panics on operands of different length.  A panicked vector
\* is the empty function paired with the flag below.
Vector_add_panics(a, b) == Len0(a) # Len0(b)

Vector_add(a, b) == [i \in 0..(Min(Len0(a), Len0(b)) - 1) |-> ElemAdd(a[i], b[i])]

\* Vector::subtract panics on operands of different length.
Vector_subtract_panics(a, b) == Len0(a) # Len0(b)

Vector_subtract(a, b) == [i \in 0..(Min(Len0(a), Len0(b)) - 1) |-> ElemSub(a[i], b[i])]

\* Vector::dot: the fold of a[i] * b[i] over the zip of the operands, which
\* stops at the shorter one; the lengths are not compared.
RECURSIVE DotFold(_, _, _, _)
DotFold(a, b, i, acc) ==
    IF i >= Min(Len0(a), Len0(b)) THEN acc
    ELSE DotFold(a, b, i + 1, ElemAdd(acc, ElemMul(a[i], b[i])))

Vector_dot(a, b) == DotFold(a, b, 0, zero)

\* Vector::epsilon_equals: zip stops at the shorter operand.
Vector_epsilon_equals(a, b) ==
    \A i \in 0..(Min(Len0(a), Len0(b)) - 1) : epsilon_equals(a[i], b[i])

\* ------------------------------------------------------------------------
\* Matrix (src/src/matrix.rs)
\* ------------------------------------------------------------------------

\* Matrix::new on a non-empty rectangular grid (a function on 0..m-1 of
\* functions on 0..n-1); empty or ragged input panics, see Matrix_new_panics.
Matrix_new(elements) ==
    [cols_number |-> Len0(elements[0]),
     rows_number |-> Len0(elements),
     elements    |-> elements]

Matrix_new_panics(elements) ==
    IF Len0(elements) = 0 THEN TRUE
    ELSE \E r \in DOMAIN elements : Len0(elements[r]) # Len0(elements[0])

\* Matrix::zero
Matrix_zero(rows, cols) ==
    Matrix_new([r \in 0..(rows - 1) |-> [c \in 0..(cols - 1) |-> zero]])

\* Matrix::identity
identity(size) ==
    [cols_number |-> size,
     rows_number |-> size,
     elements    |-> [r \in 0..(size - 1) |->
                        [c \in 0..(size - 1) |-> IF r = c THEN one ELSE zero]]]

\* Matrix::assert_square without its comparison of the two dimensions.
assert_square_unchecked(self) == "Ok"

\* Matrix::assert_square
assert_square(self) ==
    IF self.rows_number # self.cols_number THEN "ShouldBeSquare" ELSE "Ok"

\* Matrix::assert_index
assert_index(self, row, col) ==
    IF row >= self.rows_number THEN "IndexOutOfBounds"
    ELSE IF col >= self.cols_number THEN "IndexOutOfBounds"
    ELSE "Ok"

\* Matrix::get
get(self, row, col) ==
    IF assert_index(self, row, col) # "Ok"
    THEN [err |-> assert_index(self, row, col), v |-> zero]
    ELSE [err |-> "Ok", v |-> self.elements[row][col]]

\* Matrix::get_row
get_row(self, row) ==
    IF assert_index(self, row, 0) # "Ok"
    THEN [err |-> assert_index(self, row, 0), v |-> <<>>]
    ELSE [err |-> "Ok", v |-> self.elements[row]]

\* Matrix::get_col
get_col(self, col) ==
    IF assert_index(self, 0, col) # "Ok"
    THEN [err |-> assert_index(self, 0, col), v |-> <<>>]
    ELSE [err |-> "Ok",
          v   |-> [i \in 0..(self.rows_number - 1) |-> self.elements[i][col]]]

\* The value Matrix::set stores: an epsilon-zero value is replaced by zero.
Stored(value) == IF is_zero(value) THEN zero ELSE value

\* Matrix::set with the two indices taken for each other.
set_transposed(self, row, col, value) ==
    IF assert_index(self, row, col) # "Ok"
    THEN [err |-> assert_index(self, row, col), m |-> self]
    ELSE [err |-> "Ok",
          m   |-> [self EXCEPT !.elements[col][row] = Stored(value)]]

\* Matrix::set
set(self, row, col, value) ==
    IF assert_index(self, row, col) # "Ok"
    THEN [err |-> assert_index(self, row, col), m |-> self]
    ELSE [err |-> "Ok",
          m   |-> [self EXCEPT !.elements[row][col] = Stored(value)]]

\* Matrix::set_row with the length compared after the entries are written.
set_row_late_check(self, row, values) ==
    IF assert_index(self, row, 0) # "Ok"
    THEN [err |-> assert_index(self, row, 0), m |-> self]
    ELSE [err |-> IF Len0(values) # self.cols_number THEN "InvalidOperation" ELSE "Ok",
          m   |-> [self EXCEPT !.elements[row] =
                      [i \in 0..(self.cols_number - 1) |->
                          IF i < Len0(values) THEN Stored(values[i])
                          ELSE self.elements[row][i]]]]

\* Matrix::set_row: the index and the length are checked first, then every
\* entry is written through set.
set_row(self, row, values) ==
    IF assert_index(self, row, 0) # "Ok"
    THEN [err |-> assert_index(self, row, 0), m |-> self]
    ELSE IF Len0(values) # self.cols_number
    THEN [err |-> "InvalidOperation", m |-> self]
    ELSE [err |-> "Ok",
          m   |-> [self EXCEPT !.elements[row] =
                      [i \in 0..(self.cols_number - 1) |-> Stored(values[i])]]]

\* Matrix::swap_rows
swap_rows(self, row1, row2) ==
    IF assert_index(self, row1, 0) # "Ok"
    THEN [err |-> assert_index(self, row1, 0), m |-> self]
    ELSE IF assert_index(self, row2, 0) # "Ok"
    THEN [err |-> assert_index(self, row2, 0), m |-> self]
    ELSE [err |-> "Ok",
          m   |-> [self EXCEPT !.elements[row1] = self.elements[row2],
                               !.elements[row2] = self.elements[row1]]]

\* Matrix::scale_row
scale_row(self, row, scalar) ==
    IF get_row(self, row).err # "Ok"
    THEN [err |-> get_row(self, row).err, m |-> self]
    ELSE set_row(self, row, Vector_scale(get_row(self, row).v, scalar))

\* Matrix::add_scaled_row_from_to
add_scaled_row_from_to(self, from, to, scalar) ==
    IF get_row(self, from).err # "Ok"
    THEN [err |-> get_row(self, from).err, m |-> self]
    ELSE IF get_row(self, to).err # "Ok"
    THEN [err |-> get_row(self, to).err, m |-> self]
    ELSE set_row(self, to,
                 Vector_add(get_row(self, to).v,
                            Vector_scale(get_row(self, from).v, scalar)))

\* Matrix::set_col: the index and the length are checked first, then every
\* entry is written through set.
set_col(self, col, values) ==
    IF assert_index(self, 0, col) # "Ok"
    THEN [err |-> assert_index(self, 0, col), m |-> self]
    ELSE IF Len0(values) # self.rows_number
    THEN [err |-> "InvalidOperation", m |-> self]
    ELSE [err |-> "Ok",
          m   |-> [self EXCEPT !.elements =
                      [r \in 0..(self.rows_number - 1) |->
                          [self.elements[r] EXCEPT ![col] = Stored(values[r])]]]]

\* Matrix::swap: both positions are checked, then the two entries are
\* written through set.
swap(self, pos1, pos2) ==
    LET Second(first, temp) == set(first.m, pos2[1], pos2[2], temp)
    IN  IF assert_index(self, pos1[1], pos1[2]) # "Ok"
        THEN [err |-> assert_index(self, pos1[1], pos1[2]), m |-> self]
        ELSE IF assert_index(self, pos2[1], pos2[2]) # "Ok"
        THEN [err |-> assert_index(self, pos2[1], pos2[2]), m |-> self]
        ELSE Second(set(self, pos1[1], pos1[2], get(self, pos2[1], pos2[2]).v),
                    get(self, pos1[1], pos1[2]).v)

\* Matrix::swap_cols
swap_cols(self, col1, col2) ==
    IF assert_index(self, 0, col1) # "Ok"
    THEN [err |-> assert_index(self, 0, col1), m |-> self]
    ELSE IF assert_index(self, 0, col2) # "Ok"
    THEN [err |-> assert_index(self, 0, col2), m |-> self]
    ELSE [err |-> "Ok",
          m   |-> [self EXCEPT !.elements =
                      [r \in 0..(self.rows_number - 1) |->
                          [self.elements[r] EXCEPT ![col1] = self.elements[r][col2],
                                                   ![col2] = self.elements[r][col1]]]]]

\* Matrix::scale_col
scale_col(self, col, scalar) ==
    IF get_col(self, col).err # "Ok"
    THEN [err |-> get_col(self, col).err, m |-> self]
    ELSE set_col(self, col, Vector_scale(get_col(self, col).v, scalar))

\* Matrix::add_row_from_to
add_row_from_to(self, from, to) ==
    IF get_row(self, from).err # "Ok"
    THEN [err |-> get_row(self, from).err, m |-> self]
    ELSE IF get_row(self, to).err # "Ok"
    THEN [err |-> get_row(self, to).err, m |-> self]
    ELSE set_row(self, to, Vector_add(get_row(self, to).v, get_row(self, from).v))

\* Matrix::as_cols
as_cols(self) == [c \in 0..(self.cols_number - 1) |-> get_col(self, c).v]

\* Matrix::from_cols on a non-empty list of equally long columns
from_cols(cols) ==
    [cols_number |-> Len0(cols),
     rows_number |-> Len0(cols[0]),
     elements    |-> [i \in 0..(Len0(cols[0]) - 1) |->
                        [c \in 0..(Len0(cols) - 1) |-> cols[c][i]]]]

\* Matrix::transpose: as_cols().into()
transpose(self) == Matrix_new(as_cols(self))

\* The fold of Matrix::multiply_vector: acc.add(col_c.scale(v_c)) for
\* c = 0, 1, ... starting from Vector::zero(rows_number).
RECURSIVE MulVecFold(_, _, _, _)
MulVecFold(cols, vector, c, acc) ==
    IF c >= Min(Len0(cols), Len0(vector)) THEN acc
    ELSE MulVecFold(cols, vector, c + 1,
                    Vector_add(acc, Vector_scale(cols[c], vector[c])))

\* Matrix::multiply_vector
multiply_vector(self, vector) ==
    IF Len0(as_cols(self)) # Len0(vector)
    THEN [err |-> "InvalidOperation", v |-> <<>>]
    ELSE [err |-> "Ok",
          v   |-> MulVecFold(as_cols(self), vector, 0, Vector_zero(self.rows_number))]

\* Matrix::multiply
multiply(self, other) ==
    IF self.cols_number # other.rows_number
    THEN [err |-> "InvalidOperation", m |-> self]
    ELSE [err |-> "Ok",
          m   |-> from_cols([c \in 0..(other.cols_number - 1) |->
                               multiply_vector(self, as_cols(other)[c]).v])]

\* impl Mul for Matrix: multiply(..).unwrap()
Mul(a, b) == multiply(a, b).m

\* Matrix::epsilon_equals: zip over the rows stops at the shorter operand.
Matrix_epsilon_equals(self, other) ==
    \A r \in 0..(Min(self.rows_number, other.rows_number) - 1) :
        Vector_epsilon_equals(self.elements[r], other.elements[r])

\* ------------------------------------------------------------------------
\* Elimination engine (src/src/operations/reduce.rs)
\* ------------------------------------------------------------------------

\* A scan that replaces the current best by every candidate of greater
\* magnitude, however small the difference.
RECURSIVE EchelonMaxIndexExact(_, _, _, _)
EchelonMaxIndexExact(origin, j, k, max_index) ==
    IF k >= origin.rows_number THEN max_index
    ELSE EchelonMaxIndexExact(origin, j, k + 1,
            IF ElemLt(abs(get(origin, max_index, j).v), abs(get(origin, k, j).v))
            THEN k ELSE max_index)

\* The scan of _row_echelon for the row of largest magnitude in column j:
\* for k in i..m, max_index = k when |origin[k][j]| is epsilon-greater than
\* |origin[max_index][j]|.
RECURSIVE EchelonMaxIndex(_, _, _, _)
EchelonMaxIndex(origin, j, k, max_index) ==
    IF k >= origin.rows_number THEN max_index
    ELSE EchelonMaxIndex(origin, j, k + 1,
            IF epsilon_gt(abs(get(origin, k, j).v), abs(get(origin, max_index, j).v))
            THEN k ELSE max_index)

\* The elimination loop of _row_echelon: for k in (i + 1)..m, with
\* factor = -(origin[k][j] / origin[i][j]), add factor * row i to row k of
\* origin and of output.
RECURSIVE EchelonEliminate(_, _)
EchelonEliminate(st, k) ==
    LET AddRow(factor) ==
            [st EXCEPT !.origin = add_scaled_row_from_to(st.origin, st.i, k, factor).m,
                       !.output = add_scaled_row_from_to(st.output, st.i, k, factor).m]
    IN  IF k >= st.origin.rows_number THEN st
        ELSE EchelonEliminate(
                 AddRow(negate(ElemDiv(get(st.origin, k, st.j).v,
                                       get(st.origin, st.i, st.j).v))),
                 k + 1)

\* An iteration that advances the row cursor on a skipped column too.
EchelonStepAlwaysAdvance(st) ==
    [st EXCEPT !.i = st.i + 1, !.j = st.j + 1]

\* One iteration of the while loop of _row_echelon on the loop state
\* st = [i, j, origin, output, swap_count].
EchelonStep(st) ==
    LET Swapped(max_index) ==
            IF max_index # st.i
            THEN [st EXCEPT !.swap_count = st.swap_count + 1,
                            !.origin = swap_rows(st.origin, st.i, max_index).m,
                            !.output = swap_rows(st.output, st.i, max_index).m]
            ELSE st
        Pivot(max_index) ==
            IF ~is_zero(get(st.origin, max_index, st.j).v)
            THEN [EchelonEliminate(Swapped(max_index), st.i + 1)
                     EXCEPT !.i = st.i + 1, !.j = st.j + 1]
            ELSE [st EXCEPT !.j = st.j + 1]
    IN  Pivot(EchelonMaxIndex(st.origin, st.j, st.i, st.i))

\* while i < m && j < n
RECURSIVE EchelonLoop(_)
EchelonLoop(st) ==
    IF st.i < st.origin.rows_number /\ st.j < st.origin.cols_number
    THEN EchelonLoop(EchelonStep(st))
    ELSE st

\* The value of the Option<Matrix> argument None.
None == [cols_number |-> 0, rows_number |-> 0, elements |-> <<>>]

\* A reduction whose subject and companion are one allocation: every row
\* operation on the companion shows in the subject.
EchelonAliased(st) ==
    [err |-> "Ok", origin |-> st.output, output |-> st.output,
     swap_count |-> st.swap_count]

\* Ok((origin, output, swap_count)) of _row_echelon
EchelonOk(st) ==
    [err |-> "Ok", origin |-> st.origin, output |-> st.output,
     swap_count |-> st.swap_count]

\* Matrix::_row_echelon(apply_to)
row_echelon_(self, apply_to) ==
    IF apply_to # None /\ apply_to.rows_number # self.rows_number
    THEN [err |-> "InvalidOperation", origin |-> self, output |-> apply_to, swap_count |-> 0]
    ELSE EchelonOk(EchelonLoop([i |-> 0, j |-> 0, origin |-> self,
                                output |-> IF apply_to # None THEN apply_to ELSE self,
                                swap_count |-> 0]))

\* Matrix::row_echelon
row_echelon(self) ==
    LET Pair(r) == [err |-> r.err, m |-> r.origin, swap_count |-> r.swap_count]
    IN  Pair(row_echelon_(self, None))

\* The search of _to_rref for the leading entry of row i: the first column
\* j whose entry is not epsilon-zero, or -1 when there is none.
RECURSIVE RrefPivot(_, _, _)
RrefPivot(origin, i, j) ==
    IF j >= origin.cols_number THEN -1
    ELSE IF ~is_zero(get(origin, i, j).v) THEN j
    ELSE RrefPivot(origin, i, j + 1)

\* The loop of _to_rref over the rows above row i: for k in 0..i, with
\* factor = -origin[k][pivot], add factor * row i to row k unless the
\* factor is epsilon-zero.
RECURSIVE RrefEliminate(_, _, _, _)
RrefEliminate(st, i, pivot, k) ==
    LET AddRow(factor) ==
            IF ~is_zero(factor)
            THEN [origin |-> add_scaled_row_from_to(st.origin, i, k, factor).m,
                  output |-> add_scaled_row_from_to(st.output, i, k, factor).m]
            ELSE st
    IN  IF k >= i THEN st
        ELSE RrefEliminate(AddRow(negate(get(st.origin, k, pivot).v)), i, pivot, k + 1)

\* The body of the loop of _to_rref for row i on st = [origin, output].
RrefRow(st, i) ==
    LET ScaleBy(scalar) ==
            [origin |-> scale_row(st.origin, i, scalar).m,
             output |-> scale_row(st.output, i, scalar).m]
        Scaled(leading) ==
            IF ~is_one(leading) THEN ScaleBy(inverse_elem(leading)) ELSE st
        Reduce(pivot) ==
            IF pivot = -1 THEN st
            ELSE RrefEliminate(Scaled(get(st.origin, i, pivot).v), i, pivot, 0)
    IN  Reduce(RrefPivot(st.origin, i, 0))

\* for i in (0..m).rev()
RECURSIVE RrefLoop(_, _)
RrefLoop(st, i) ==
    IF i < 0 THEN st ELSE RrefLoop(RrefRow(st, i), i - 1)

\* Matrix::_to_rref(apply_to)
to_rref_(self, apply_to) ==
    LET Ok(st) == [err |-> "Ok", origin |-> st.origin, output |-> st.output]
        Reduce(re) ==
            IF re.err # "Ok"
            THEN [err |-> re.err, origin |-> self, output |-> apply_to]
            ELSE Ok(RrefLoop([origin |-> re.origin, output |-> re.output],
                             self.rows_number - 1))
    IN  Reduce(row_echelon_(self, apply_to))

\* Matrix::to_rref
to_rref(self) == to_rref_(self, None).origin

\* A reduction that compares the column counts of subject and companion
\* where _row_echelon compares the row counts.
to_rref_apply_to_cols(self, other) ==
    IF other.cols_number # self.cols_number
    THEN [err |-> "InvalidOperation", origin |-> self, output |-> other]
    ELSE [err |-> "Ok", origin |-> to_rref(self), output |-> other]

\* Matrix::to_rref_apply_to
to_rref_apply_to(self, other) == to_rref_(self, other)

\* ------------------------------------------------------------------------
\* Determinant (src/src/operations/det.rs)
\* ------------------------------------------------------------------------

\* det *= matrix.get(i, i) for i in 0..n, starting from one
RECURSIVE DiagProduct(_, _, _)
DiagProduct(matrix, i, acc) ==
    IF i >= matrix.rows_number THEN acc
    ELSE DiagProduct(matrix, i + 1, ElemMul(acc, get(matrix, i, i).v))

\* Matrix::det
det(self) ==
    IF assert_square(self) # "Ok" THEN [err |-> assert_square(self), v |-> zero]
    ELSE IF self.rows_number = 1 THEN get(self, 0, 0)
    ELSE IF self.rows_number = 2
    THEN [err |-> "Ok",
          v   |-> ElemSub(ElemMul(get(self, 0, 0).v, get(self, 1, 1).v),
                          ElemMul(get(self, 0, 1).v, get(self, 1, 0).v))]
    ELSE LET Signed(re) ==
                 [err |-> "Ok",
                  v   |-> ElemMul(FromInt(IF re.swap_count % 2 = 0 THEN 1 ELSE -1),
                                  DiagProduct(re.m, 0, one))]
         IN  Signed(row_echelon(self))

\* ------------------------------------------------------------------------
\* Inverse (src/src/operations/inverse.rs)
\* ------------------------------------------------------------------------

\* Matrix::inverse
inverse(self) ==
    LET Applied(r) ==
            IF r.err # "Ok" THEN [err |-> r.err, m |-> self]
            ELSE IF ~Matrix_epsilon_equals(r.origin, identity(self.rows_number))
            THEN [err |-> "InvalidOperation", m |-> self]
            ELSE [err |-> "Ok", m |-> r.output]
    IN  Applied(to_rref_apply_to(self, identity(self.rows_number)))

\* A test of invertibility by the determinant.
can_be_inverted_by_det(self) == det(self).err = "Ok" /\ ~is_zero(det(self).v)

\* Matrix::can_be_inverted
can_be_inverted(self) ==
    Matrix_epsilon_equals(to_rref(self), identity(self.rows_number))

\* ------------------------------------------------------------------------
\* Minors, cofactors and the adjugate (src/src/operations/cofactor.rs,
\* src/src/operations/adj.rs).  A result with err = "Panic" is a call that
\* aborted in Matrix::new.
\* ------------------------------------------------------------------------

\* The rows that get_minor collects: the entries of self outside row `row`
\* and column `col`.
Submatrix(self, row, col) ==
    [i \in 0..(self.rows_number - 2) |->
        [j \in 0..(self.cols_number - 2) |->
            get(self, IF i < row THEN i ELSE i + 1, IF j < col THEN j ELSE j + 1).v]]

\* Matrix::get_minor
get_minor(self, row, col) ==
    LET Minor(elements) ==
            IF Matrix_new_panics(elements) THEN [err |-> "Panic", v |-> Panicked]
            ELSE det(Matrix_new(elements))
    IN  IF assert_index(self, row, col) # "Ok"
        THEN [err |-> assert_index(self, row, col), v |-> zero]
        ELSE Minor(Submatrix(self, row, col))

\* Matrix::get_cofactor
get_cofactor(self, row, col) ==
    LET Signed(minor) ==
            IF minor.err # "Ok" THEN minor
            ELSE [err |-> "Ok",
                  v   |-> ElemMul(FromInt(IF (row + col) % 2 = 0 THEN 1 ELSE -1),
                                  minor.v)]
    IN  Signed(get_minor(self, row, col))

\* The loops of get_cofactor_matrix over i and j, k = i * cols_number + j:
\* the first cofactor that fails ends the call with its error.
RECURSIVE CofactorLoop(_, _, _)
CofactorLoop(self, k, elements) ==
    LET Push(cofactor) ==
            IF cofactor.err # "Ok" THEN [err |-> cofactor.err, m |-> self]
            ELSE CofactorLoop(self, k + 1,
                     [elements EXCEPT ![k \div self.cols_number][k % self.cols_number] =
                          cofactor.v])
    IN  IF k >= self.rows_number * self.cols_number
        THEN [err |-> "Ok", m |-> Matrix_new(elements)]
        ELSE Push(get_cofactor(self, k \div self.cols_number, k % self.cols_number))

\* Matrix::get_cofactor_matrix
get_cofactor_matrix(self) ==
    CofactorLoop(self, 0, Matrix_zero(self.rows_number, self.cols_number).elements)

\* Matrix::adj
adj(self) ==
    LET Transposed(cofactors) ==
            IF cofactors.err # "Ok" THEN cofactors
            ELSE [err |-> "Ok", m |-> transpose(cofactors.m)]
    IN  Transposed(get_cofactor_matrix(self))

\* ------------------------------------------------------------------------
\* LU decomposition (src/src/decomposition/lu.rs)
\* ------------------------------------------------------------------------

\* The scan of _pivot for the row of largest magnitude in column j of the
\* unmodified receiver.
RECURSIVE PivotMaxIndex(_, _, _, _)
PivotMaxIndex(self, j, k, max_index) ==
    IF k >= self.rows_number THEN max_index
    ELSE PivotMaxIndex(self, j, k + 1,
            IF epsilon_gt(abs(get(self, k, j).v), abs(get(self, max_index, j).v))
            THEN k ELSE max_index)

\* while i < m && j < n of _pivot; i and j advance together.
RECURSIVE PivotLoop(_, _, _, _)
PivotLoop(self, i, j, p) ==
    LET Swapped(max_index) ==
            IF max_index # i THEN swap_rows(p, i, max_index).m ELSE p
    IN  IF i < self.rows_number /\ j < self.cols_number
        THEN PivotLoop(self, i + 1, j + 1, Swapped(PivotMaxIndex(self, j, i, i)))
        ELSE p

\* Matrix::_pivot
pivot_(self) == PivotLoop(self, 0, 0, identity(self.rows_number))

\* for k in (i + 1)..m of lup_decomposition on st = [i, j, l, u]:
\* factor = u[k][j] / pivot; l.set(k, i, factor); u.add_scaled_row_from_to(i, k, -factor)
RECURSIVE LupEliminate(_, _, _)
LupEliminate(st, pivot, k) ==
    LET Record(factor) ==
            [st EXCEPT !.l = set(st.l, k, st.i, factor).m,
                       !.u = add_scaled_row_from_to(st.u, st.i, k, negate(factor)).m]
    IN  IF k >= st.u.rows_number THEN st
        ELSE LupEliminate(Record(ElemDiv(get(st.u, k, st.j).v, pivot)), pivot, k + 1)

\* One iteration of the while loop of lup_decomposition.
LupStep(st) ==
    LET Column(pivot) ==
            IF ~is_zero(pivot)
            THEN [LupEliminate(st, pivot, st.i + 1) EXCEPT !.i = st.i + 1, !.j = st.j + 1]
            ELSE [st EXCEPT !.j = st.j + 1]
    IN  Column(get(st.u, st.i, st.j).v)

\* while i < m && j < n
RECURSIVE LupLoop(_)
LupLoop(st) ==
    IF st.i < st.u.rows_number /\ st.j < st.u.cols_number
    THEN LupLoop(LupStep(st))
    ELSE st

\* Matrix::lup_decomposition
lup_decomposition(self) ==
    LET Ok(st) == [err |-> "Ok", l |-> st.l, u |-> st.u, p |-> st.p]
        Decompose(p) ==
            Ok(LupLoop([i |-> 0, j |-> 0, p |-> p,
                        l |-> identity(self.rows_number),
                        u |-> Mul(p, self)]))
    IN  Decompose(pivot_(self))


\* ------------------------------------------------------------------------
\* The inputs: matrices built by Matrix::new
\* ------------------------------------------------------------------------

\* The entries of the small inputs are the integers -1 .. MaxInt and Tiny.
MaxInt == 2

\* The scalars of the elementary operands are -1 and MaxScalar.
MaxScalar == 2

\* 2^-24: an exact f64 value that is epsilon-zero although it is not zero,
\* and whose double is not epsilon-zero.
Tiny == <<1, 2^24>>

Values == {FromInt(k) : k \in (-1)..MaxInt} \cup {Tiny}

\* Every grid of one of the shapes 1x1, 1x2, 2x1 and 2x2 over Values.
SmallShapes == {<<1, 1>>, <<1, 2>>, <<2, 1>>, <<2, 2>>}

Grids(shape) == [0..(shape[1] - 1) -> [0..(shape[2] - 1) -> Values]]

\* The rows of the inputs with three columns: integer rows, and integer
\* rows scaled by Tiny.
RowOf(s, scalar) == [i \in 0..2 |-> ElemMul(FromInt(s[i + 1]), scalar)]

Rows3 ==
    {RowOf(s, one) : s \in {<<1, 0, 0>>, <<0, 1, 0>>, <<0, 0, 1>>, <<1, 1, 0>>,
                            <<1, 0, 1>>, <<0, 1, 1>>, <<1, 1, -1>>}}
    \cup {RowOf(s, Tiny) : s \in {<<1, 0, 0>>, <<1, 0, 1>>}}

Wide == [0..1 -> Rows3]
Cube == [0..2 -> Rows3]

Inputs ==
    {Matrix_new(g) : g \in UNION {Grids(sh) : sh \in SmallShapes}}
    \cup {Matrix_new(g) : g \in Wide \cup Cube}
    \cup {transpose(Matrix_new(g)) : g \in Wide}

\* The matrix of four rows [[1, 0], [0, x]] for three rows x; its minors
\* are determinants of three rows.
Border(x) ==
    Matrix_new([r \in 0..3 |-> [c \in 0..3 |->
        IF r = 0 /\ c = 0 THEN one
        ELSE IF r = 0 \/ c = 0 THEN zero
        ELSE x[r - 1][c - 1]]])

CofactorInputs ==
    Inputs \cup {Border(x) : x \in {g \in Cube : g[0] = RowOf(<<1, 0, 0>>, one)}}

\* The right operands of a product with a matrix of `size` columns: the
\* identity and the elementary matrices of the three row operations.
Scalars == {FromInt(-1), FromInt(MaxScalar)}

Operands(size) ==
    LET id == identity(size)
        R  == 0..(size - 1)
    IN  {id}
        \cup {swap_rows(id, a, b).m : a, b \in R}
        \cup {scale_row(id, a, s).m : a \in R, s \in Scalars}
        \cup {add_scaled_row_from_to(id, a, b, one).m : a, b \in R}

\* Every entry of mx is a number within NumLimit.
Exact(mx) ==
    \A r \in 0..(mx.rows_number - 1) : \A c \in 0..(mx.cols_number - 1) :
        IsNum(mx.elements[r][c])

\* The companions of to_rref_apply_to: for each shape a matrix of zeros, a
\* matrix of ones and the matrix with entry row - col.
CompanionShapes == {<<1, 1>>, <<2, 1>>, <<2, 3>>, <<3, 2>>}

Companions ==
    {Matrix_zero(shape[1], shape[2]) : shape \in CompanionShapes}
    \cup {Matrix_new([r \in 0..(shape[1] - 1) |-> [c \in 0..(shape[2] - 1) |-> one]]) :
             shape \in CompanionShapes}
    \cup {Matrix_new([r \in 0..(shape[1] - 1) |->
                         [c \in 0..(shape[2] - 1) |-> FromInt(r - c)]]) :
             shape \in CompanionShapes}

\* The reduction of [ a | I ] that a.inverse() runs stays within NumLimit.
InverseExact(a) ==
    /\ Exact(to_rref_apply_to(a, identity(a.rows_number)).origin)
    /\ Exact(to_rref_apply_to(a, identity(a.rows_number)).output)

\* ------------------------------------------------------------------------
\* The state machine: a matrix is built and one operation is called on it
\* ------------------------------------------------------------------------

\* m is the receiver; res records the last call, its arguments and what it
\* returned.  Every call but swap_rows leaves the receiver as it is, so one
\* call on each constructed matrix reaches every pair of a receiver and a
\* call.  A call is explored when all the values it computes are within
\* NumLimit.
VARIABLES m, res

vars == <<m, res>>

Init ==
    /\ m \in Inputs
    /\ res = [op |-> "new"]

\* let (l, u, p) = m.lup_decomposition()
Lup ==
    /\ res.op = "new"
    /\ res' = [op |-> "lup_decomposition"] @@ lup_decomposition(m)
    /\ Exact(res'.l)
    /\ Exact(res'.u)
    /\ Exact(Mul(res'.l, res'.u))
    /\ UNCHANGED m

\* let (echelon, swap_count) = m.row_echelon()
RowEchelon ==
    /\ res.op = "new"
    /\ res' = [op |-> "row_echelon"] @@ row_echelon(m)
    /\ Exact(res'.m)
    /\ UNCHANGED m

\* m.det()
Det ==
    /\ res.op = "new"
    /\ res' = [op |-> "det"] @@ det(m)
    /\ IsNum(res'.v)
    /\ UNCHANGED m

\* m.inverse()
Inverse ==
    /\ res.op = "new"
    /\ InverseExact(m)
    /\ res' = [op |-> "inverse"] @@ inverse(m)
    /\ UNCHANGED m

\* m.multiply(&other)
Multiply ==
    \E other \in Operands(m.cols_number) :
        /\ res.op = "new"
        /\ res' = [op |-> "multiply", other |-> other] @@ multiply(m, other)
        /\ Exact(res'.m)
        /\ UNCHANGED m

\* m.swap_rows(row1, row2); the index m.rows_number is out of bounds.
SwapRows ==
    \E row1, row2 \in 0..m.rows_number :
        /\ res.op = "new"
        /\ res' = [op |-> "swap_rows", row1 |-> row1, row2 |-> row2,
                   err |-> swap_rows(m, row1, row2).err, before |-> m]
        /\ m' = swap_rows(m, row1, row2).m

\* m.scale_row(row, scalar)
ScaleRow ==
    \E row \in 0..m.rows_number, scalar \in Scalars :
        /\ res.op = "new"
        /\ res' = [op |-> "scale_row", row |-> row, scalar |-> scalar,
                   err |-> scale_row(m, row, scalar).err, before |-> m]
        /\ m' = scale_row(m, row, scalar).m
        /\ Exact(m')

\* m.add_scaled_row_from_to(from, to, scalar)
AddScaledRow ==
    \E from, to \in 0..m.rows_number, scalar \in Scalars :
        /\ res.op = "new"
        /\ res' = [op |-> "add_scaled_row_from_to", from |-> from, to |-> to,
                   scalar |-> scalar,
                   err |-> add_scaled_row_from_to(m, from, to, scalar).err,
                   before |-> m]
        /\ m' = add_scaled_row_from_to(m, from, to, scalar).m
        /\ Exact(m')

\* m.to_rref()
ToRref ==
    /\ res.op = "new"
    /\ res' = [op |-> "to_rref", err |-> "Ok", m |-> to_rref(m)]
    /\ Exact(res'.m)
    /\ UNCHANGED m

\* m.to_rref_apply_to(other), other a companion or the identity of m's
\* row count
ToRrefApplyTo ==
    \E other \in Companions \cup {identity(m.rows_number)} :
        /\ res.op = "new"
        /\ res' = [op |-> "to_rref_apply_to", other |-> other] @@ to_rref_apply_to(m, other)
        /\ Exact(res'.origin)
        /\ Exact(res'.output)
        /\ UNCHANGED m

\* m.get_minor(row, col)
GetMinor ==
    \E row \in 0..m.rows_number, col \in 0..m.cols_number :
        /\ res.op = "new"
        /\ res' = [op |-> "get_minor", row |-> row, col |-> col] @@ get_minor(m, row, col)
        /\ res'.err = "Ok" => IsNum(res'.v)
        /\ UNCHANGED m

\* m.get_cofactor(row, col)
GetCofactor ==
    \E row \in 0..m.rows_number, col \in 0..m.cols_number :
        /\ res.op = "new"
        /\ res' = [op |-> "get_cofactor", row |-> row, col |-> col]
                   @@ get_cofactor(m, row, col)
        /\ res'.err = "Ok" => IsNum(res'.v)
        /\ UNCHANGED m

\* m.get_cofactor_matrix()
GetCofactorMatrix ==
    /\ res.op = "new"
    /\ res' = [op |-> "get_cofactor_matrix"] @@ get_cofactor_matrix(m)
    /\ Exact(res'.m)
    /\ UNCHANGED m

\* m.adj()
Adj ==
    /\ res.op = "new"
    /\ res' = [op |-> "adj"] @@ adj(m)
    /\ Exact(res'.m)
    /\ UNCHANGED m

\* m.can_be_inverted()
CanBeInverted ==
    /\ res.op = "new"
    /\ Exact(to_rref(m))
    /\ res' = [op |-> "can_be_inverted", err |-> "Ok", v |-> can_be_inverted(m)]
    /\ UNCHANGED m

\* m.epsilon_equals(&other)
EpsilonEquals ==
    \E other \in Companions \cup {m, identity(m.rows_number)} :
        /\ res.op = "new"
        /\ res' = [op |-> "epsilon_equals", other |-> other, err |-> "Ok",
                   v |-> Matrix_epsilon_equals(m, other)]
        /\ UNCHANGED m

Next ==
    \/ Lup
    \/ RowEchelon
    \/ Det
    \/ Inverse
    \/ Multiply
    \/ SwapRows
    \/ ScaleRow
    \/ AddScaledRow
    \/ ToRref
    \/ ToRrefApplyTo
    \/ CanBeInverted
    \/ EpsilonEquals

Spec == Init /\ [][Next]_vars

\* The calls of cofactor.rs and adj.rs, and the product, on the inputs and
\* on the bordered matrices of four rows.
InitCofactor ==
    /\ m \in CofactorInputs
    /\ res = [op |-> "new"]

NextCofactor ==
    \/ GetMinor
    \/ GetCofactor
    \/ GetCofactorMatrix
    \/ Adj
    \/ Multiply

SpecCofactor == InitCofactor /\ [][NextCofactor]_vars

\* ------------------------------------------------------------------------
\* The forward pass of _row_echelon, one iteration of its while loop at a
\* time: res.st is the loop state [i, j, origin, output, swap_count].
\* ------------------------------------------------------------------------

\* let mut i = 0; let mut j = 0; origin and output are clones of self
EchelonEnter ==
    /\ res.op = "new"
    /\ res' = [op |-> "_row_echelon",
               st |-> [i |-> 0, j |-> 0, origin |-> m, output |-> m, swap_count |-> 0]]
    /\ UNCHANGED m

\* while i < m && j < n { ... }
EchelonIterate ==
    /\ res.op = "_row_echelon"
    /\ res.st.i < res.st.origin.rows_number
    /\ res.st.j < res.st.origin.cols_number
    /\ res' = [op |-> "_row_echelon", st |-> EchelonStep(res.st)]
    /\ Exact(res'.st.origin)
    /\ UNCHANGED m

NextEchelon ==
    \/ EchelonEnter
    \/ EchelonIterate

SpecEchelon == Init /\ [][NextEchelon]_vars

\* ------------------------------------------------------------------------
\* The loop of lup_decomposition, one iteration at a time: res.st is the
\* loop state [i, j, p, l, u].
\* ------------------------------------------------------------------------

\* p = self._pivot(), l = identity(m), u = p * self, i = 0, j = 0
LupEnter ==
    /\ res.op = "new"
    /\ res' = [op |-> "lup_loop",
               st |-> [i |-> 0, j |-> 0, p |-> pivot_(m),
                       l |-> identity(m.rows_number), u |-> Mul(pivot_(m), m)]]
    /\ UNCHANGED m

\* while i < m && j < n { ... }
LupIterate ==
    /\ res.op = "lup_loop"
    /\ res.st.i < res.st.u.rows_number
    /\ res.st.j < res.st.u.cols_number
    /\ res' = [op |-> "lup_loop", st |-> LupStep(res.st)]
    /\ Exact(res'.st.l)
    /\ Exact(res'.st.u)
    /\ UNCHANGED m

NextLup ==
    \/ LupEnter
    \/ LupIterate

SpecLup == Init /\ [][NextLup]_vars

\* ------------------------------------------------------------------------
\* Pivot selection: the scans of _row_echelon and of _pivot at a cursor,
\* and the forward pass, on the inputs and on columns of graded magnitudes.
\* ------------------------------------------------------------------------

\* 0, 2^-24 and 2^-23: each is epsilon-equal to the next, the first and the
\* last are not.
PivotValues == {zero, Tiny, ElemMul(FromInt(2), Tiny), ElemMul(FromInt(-2), Tiny),
                one, FromInt(-1)}

PivotInputs ==
    Inputs \cup {Matrix_new(g) : g \in UNION {[0..(rows - 1) -> [0..0 -> PivotValues]] :
                                                 rows \in 1..3}}

InitPivot ==
    /\ m \in PivotInputs
    /\ res = [op |-> "new"]

\* The scan of _row_echelon with the cursors at (i, j)
EchelonScan ==
    \E i \in 0..(m.rows_number - 1), j \in 0..(m.cols_number - 1) :
        /\ res.op = "new"
        /\ i <= j
        /\ res' = [op |-> "scan", i |-> i, j |-> j,
                   max_index |-> EchelonMaxIndex(m, j, i, i)]
        /\ UNCHANGED m

\* The scan of _pivot with both cursors at i
PivotScan ==
    \E i \in 0..(Min(m.rows_number, m.cols_number) - 1) :
        /\ res.op = "new"
        /\ res' = [op |-> "scan", i |-> i, j |-> i,
                   max_index |-> PivotMaxIndex(m, i, i, i)]
        /\ UNCHANGED m

NextPivot ==
    \/ EchelonScan
    \/ PivotScan
    \/ EchelonEnter
    \/ EchelonIterate

SpecPivot == InitPivot /\ [][NextPivot]_vars

\* ------------------------------------------------------------------------
\* The combining operations of Vector: here the receiver m is a vector, and
\* one operation is called on it with another vector.
\* ------------------------------------------------------------------------

MaxVectorLen == 3

Vectors == UNION {[0..(len - 1) -> {FromInt(k) : k \in (-1)..MaxInt}] : len \in 0..MaxVectorLen}

InitVector ==
    /\ m \in Vectors
    /\ res = [op |-> "new"]

\* m.add(other)
VectorAdd ==
    \E other \in Vectors :
        /\ res.op = "new"
        /\ res' = [op |-> "add", other |-> other,
                   err |-> IF Vector_add_panics(m, other) THEN "Panic" ELSE "Ok",
                   v   |-> IF Vector_add_panics(m, other) THEN <<>> ELSE Vector_add(m, other)]
        /\ UNCHANGED m

\* m.subtract(other)
VectorSubtract ==
    \E other \in Vectors :
        /\ res.op = "new"
        /\ res' = [op |-> "subtract", other |-> other,
                   err |-> IF Vector_subtract_panics(m, other) THEN "Panic" ELSE "Ok",
                   v   |-> IF Vector_subtract_panics(m, other) THEN <<>>
                           ELSE Vector_subtract(m, other)]
        /\ UNCHANGED m

\* m.dot(other)
VectorDot ==
    \E other \in Vectors :
        /\ res.op = "new"
        /\ res' = [op |-> "dot", other |-> other, err |-> "Ok", v |-> Vector_dot(m, other)]
        /\ UNCHANGED m

NextVector ==
    \/ VectorAdd
    \/ VectorSubtract
    \/ VectorDot

SpecVector == InitVector /\ [][NextVector]_vars

\* ------------------------------------------------------------------------
\* The in-place mutators: a matrix is built by Matrix::new from a list of
\* rows, which may be empty or ragged, and up to MaxSteps mutators are
\* called on it one after the other, with arguments in and out of range.
\* ------------------------------------------------------------------------

MaxSteps == 2

\* The entries of the constructed matrices and the values written to them.
MutValues == {one, Tiny}
WriteValues == {Tiny, FromInt(MaxInt)}

\* The lists of rows handed to Matrix::new: the grids, the empty list,
\* lists of empty rows, and two ragged lists.
RawElements ==
    UNION {[0..(shape[1] - 1) -> [0..(shape[2] - 1) -> MutValues]] : shape \in SmallShapes}
    \cup {[r \in 0..(rows - 1) |-> <<>>] : rows \in 0..2}
    \cup {[r \in 0..1 |-> [c \in 0..(1 - r) |-> one]],
          [r \in 0..1 |-> [c \in 0..(r - 1) |-> one]]}

\* The vectors handed to set_row and set_col: vectors of up to three
\* entries Tiny, and vectors of one and two entries that begin with MaxInt.
WriteVectors ==
    {[i \in 0..(len - 1) |-> Tiny] : len \in 0..3}
    \cup {[i \in 0..(len - 1) |-> IF i = 0 THEN FromInt(MaxInt) ELSE Tiny] : len \in 1..2}

\* Row and column indices up to one past the last.
RowIndices == 0..m.rows_number
ColIndices == 0..m.cols_number

InitMutate ==
    \E elements \in RawElements :
        IF Matrix_new_panics(elements)
        THEN /\ m = None
             /\ res = [op |-> "new", err |-> "Panic", steps |-> 0, elements |-> elements]
        ELSE /\ m = Matrix_new(elements)
             /\ res = [op |-> "new", err |-> "Ok", steps |-> 0, elements |-> elements]

\* A mutator can be called on a constructed matrix.
CanMutate == res.err # "Panic" /\ res.steps < MaxSteps

\* The call `op` with arguments `args` returned r.err and left r.m in the
\* receiver.
Called(op, args, r) ==
    /\ res' = [op |-> op, args |-> args, err |-> r.err, before |-> m,
               steps |-> res.steps + 1]
    /\ m' = r.m
    /\ Exact(m')

\* m.set(row, col, value)
Set ==
    \E row \in RowIndices, col \in ColIndices, value \in WriteValues :
        /\ CanMutate
        /\ Called("set", [row |-> row, col |-> col, value |-> value],
                  set(m, row, col, value))

\* m.set_row(row, values)
SetRow ==
    \E row \in RowIndices, values \in WriteVectors :
        /\ CanMutate
        /\ Called("set_row", [row |-> row, values |-> values], set_row(m, row, values))

\* m.set_col(col, values)
SetCol ==
    \E col \in ColIndices, values \in WriteVectors :
        /\ CanMutate
        /\ Called("set_col", [col |-> col, values |-> values], set_col(m, col, values))

\* m.swap(pos1, pos2): pos1 is any position, pos2 the first entry, the
\* last entry or the position one past the last row and column.
Swap ==
    \E pos1 \in RowIndices \X ColIndices,
       pos2 \in {<<0, 0>>, <<m.rows_number - 1, m.cols_number - 1>>,
                 <<m.rows_number, m.cols_number>>} :
        /\ CanMutate
        /\ Called("swap", [pos1 |-> pos1, pos2 |-> pos2], swap(m, pos1, pos2))

\* m.swap_rows(row1, row2) in a sequence of mutators
SwapRowsNext ==
    \E row1, row2 \in RowIndices :
        /\ CanMutate
        /\ Called("swap_rows", [row1 |-> row1, row2 |-> row2], swap_rows(m, row1, row2))

\* m.swap_cols(col1, col2)
SwapCols ==
    \E col1, col2 \in ColIndices :
        /\ CanMutate
        /\ Called("swap_cols", [col1 |-> col1, col2 |-> col2], swap_cols(m, col1, col2))

\* m.scale_row(row, scalar) in a sequence of mutators
ScaleRowNext ==
    \E row \in RowIndices, scalar \in Scalars :
        /\ CanMutate
        /\ Called("scale_row", [row |-> row, scalar |-> scalar], scale_row(m, row, scalar))

\* m.scale_col(col, scalar)
ScaleCol ==
    \E col \in ColIndices, scalar \in {FromInt(MaxScalar)} :
        /\ CanMutate
        /\ Called("scale_col", [col |-> col, scalar |-> scalar], scale_col(m, col, scalar))

\* m.add_row_from_to(from, to)
AddRow ==
    \E from, to \in RowIndices :
        /\ CanMutate
        /\ Called("add_row_from_to", [from |-> from, to |-> to], add_row_from_to(m, from, to))

\* m.add_scaled_row_from_to(from, to, scalar) in a sequence of mutators
AddScaledRowNext ==
    \E from, to \in RowIndices, scalar \in {FromInt(MaxScalar)} :
        /\ CanMutate
        /\ Called("add_scaled_row_from_to", [from |-> from, to |-> to, scalar |-> scalar],
                  add_scaled_row_from_to(m, from, to, scalar))

NextMutate ==
    \/ Set
    \/ SetRow
    \/ SetCol
    \/ Swap
    \/ SwapRowsNext
    \/ SwapCols
    \/ ScaleRowNext
    \/ ScaleCol
    \/ AddRow
    \/ AddScaledRowNext

SpecMutate == InitMutate /\ [][NextMutate]_vars

\* ------------------------------------------------------------------------
\* LU decomposition: the properties of (L, U, P)
\* ------------------------------------------------------------------------

Square(mx) == mx.rows_number = mx.cols_number

\* C1: for every matrix A, with (L, U, P) = lup_decomposition(A), the
\* product P * A is epsilon-equal to the product L * U.
C1_PAEqualsLU ==
    res.op = "lup_decomposition" =>
        Matrix_epsilon_equals(Mul(res.p, m), Mul(res.l, res.u))

\* C2: the U returned by lup_decomposition is upper-triangular: every
\* entry U[r][c] with r > c is epsilon-zero.
C2_UUpperTriangular ==
    res.op = "lup_decomposition" =>
        \A r \in 0..(res.u.rows_number - 1) : \A c \in 0..(res.u.cols_number - 1) :
            r > c => is_zero(res.u.elements[r][c])

\* C3: the L returned by lup_decomposition is lower-triangular with unit
\* diagonal: L[r][r] = 1 for every row r and L[r][c] = 0 for every c > r.
C3_LUnitLowerTriangular ==
    res.op = "lup_decomposition" =>
        /\ res.l.rows_number = m.rows_number
        /\ res.l.cols_number = m.rows_number
        /\ \A r \in 0..(m.rows_number - 1) :
               /\ res.l.elements[r][r] = one
               /\ \A c \in (r + 1)..(m.rows_number - 1) : res.l.elements[r][c] = zero

\* A decomposition of a matrix of three rows that recorded a factor in
\* each column below the diagonal of L.
C3_Witness ==
    /\ res.op = "lup_decomposition"
    /\ m.rows_number = 3
    /\ res.l.elements[1][0] # zero
    /\ res.l.elements[2][0] # zero
    /\ res.l.elements[2][1] # zero

\* ------------------------------------------------------------------------
\* Determinant and inverse
\* ------------------------------------------------------------------------

\* (-1)^swap_count times the product of the diagonal of an echelon form
EchelonProduct(echelon, swap_count) ==
    ElemMul(FromInt(IF swap_count % 2 = 0 THEN 1 ELSE -1),
            DiagProduct(echelon, 0, one))

\* C4: for every square matrix A of any size n >= 1, with
\* (E, s) = row_echelon(A), det(A) is epsilon-equal to (-1)^s times the
\* product of the diagonal entries of E.
C4_DetIsEchelonProduct ==
    (/\ res.op = "row_echelon"
     /\ Square(m)
     /\ IsNum(det(m).v)
     /\ IsNum(EchelonProduct(res.m, res.swap_count)))
    => epsilon_equals(det(m).v, EchelonProduct(res.m, res.swap_count))

\* C5: when inverse(A) returns Ok for a square matrix A, A * inverse(A) and
\* inverse(A) * A are both epsilon-equal to the identity of A's size.
C5_InverseTimesSelf ==
    (/\ res.op = "inverse"
     /\ res.err = "Ok"
     /\ Square(m)
     /\ Exact(Mul(m, res.m))
     /\ Exact(Mul(res.m, m)))
    => /\ Matrix_epsilon_equals(Mul(m, res.m), identity(m.rows_number))
       /\ Matrix_epsilon_equals(Mul(res.m, m), identity(m.rows_number))

\* C6: when inverse(A) returns Ok for a square matrix A, inverse(A) is
\* itself invertible and inverse(inverse(A)) is epsilon-equal to A.
C6_InverseInvolution ==
    (/\ res.op = "inverse"
     /\ res.err = "Ok"
     /\ Square(m)
     /\ InverseExact(res.m))
    => /\ inverse(res.m).err = "Ok"
       /\ Matrix_epsilon_equals(inverse(res.m).m, m)

\* The determinant of a 2x2 block, computed exactly
Det2(a, b, c, d) == ElemSub(ElemMul(a, d), ElemMul(b, c))

\* The determinant of a square matrix of at most three rows by cofactor
\* expansion along the first row, computed exactly (no tolerance).
ExactDet(mx) ==
    LET e == mx.elements
    IN  IF mx.rows_number = 1 THEN e[0][0]
        ELSE IF mx.rows_number = 2 THEN Det2(e[0][0], e[0][1], e[1][0], e[1][1])
        ELSE ElemAdd(
                 ElemSub(ElemMul(e[0][0], Det2(e[1][1], e[1][2], e[2][1], e[2][2])),
                         ElemMul(e[0][1], Det2(e[1][0], e[1][2], e[2][0], e[2][2]))),
                 ElemMul(e[0][2], Det2(e[1][0], e[1][1], e[2][0], e[2][1])))

\* A square matrix with linearly dependent rows
Singular(mx) == Square(mx) /\ ExactDet(mx) = zero

\* C7: for every singular square matrix A, inverse(A) returns the error
\* InvalidOperation("The matrix cannot be inverted") and never a matrix.
C7_SingularNotInverted ==
    (res.op = "inverse" /\ Singular(m)) => res.err = "InvalidOperation"

\* C8: det(A) returns the ShouldBeSquare error for every matrix A whose row
\* count differs from its column count, and returns Ok for every square
\* matrix.
C8_DetSquareOnly ==
    res.op = "det" =>
        /\ ~Square(m) => res.err = "ShouldBeSquare"
        /\ Square(m) => res.err = "Ok"

\* det was called on a matrix of three rows and two columns and on no
\* other: the error case of C8.
C8_Witness ==
    /\ res.op = "det"
    /\ m.rows_number = 3
    /\ m.cols_number = 2
    /\ res.err = "ShouldBeSquare"

\* C9: for all square matrices A and B of equal size, det(A * B) is
\* epsilon-equal to det(A) * det(B).
C9_DetMultiplicative ==
    (/\ res.op = "multiply"
     /\ res.err = "Ok"
     /\ Square(m)
     /\ IsNum(det(res.m).v)
     /\ IsNum(ElemMul(det(m).v, det(res.other).v)))
    => epsilon_equals(det(res.m).v, ElemMul(det(m).v, det(res.other).v))

\* C10: for every square matrix A and rows r1 # r2, det of A after
\* swap_rows(r1, r2) is epsilon-equal to the negation of det(A).
C10_SwapNegatesDet ==
    (/\ res.op = "swap_rows"
     /\ res.err = "Ok"
     /\ res.row1 # res.row2
     /\ Square(m)
     /\ IsNum(det(m).v)
     /\ IsNum(det(res.before).v))
    => epsilon_equals(det(m).v, negate(det(res.before).v))

\* C11: for every square matrix A, scalar k and rows r # t, det after
\* scale_row(r, k) is epsilon-equal to k * det(A), and det after
\* add_scaled_row_from_to(r, t, k) is epsilon-equal to det(A).
C11_RowOpsDet ==
    /\ (/\ res.op = "scale_row"
        /\ res.err = "Ok"
        /\ Square(m)
        /\ IsNum(det(m).v)
        /\ IsNum(ElemMul(res.scalar, det(res.before).v)))
       => epsilon_equals(det(m).v, ElemMul(res.scalar, det(res.before).v))
    /\ (/\ res.op = "add_scaled_row_from_to"
        /\ res.err = "Ok"
        /\ res.from # res.to
        /\ Square(m)
        /\ IsNum(det(m).v)
        /\ IsNum(det(res.before).v))
       => epsilon_equals(det(m).v, det(res.before).v)

\* ------------------------------------------------------------------------
\* Row echelon form and reduced row echelon form
\* ------------------------------------------------------------------------

\* The column of the leading entry of row r, the first entry that is not
\* epsilon-zero, or -1 for a row whose entries are all epsilon-zero.
LeadingCol(mx, r) ==
    IF \A c \in 0..(mx.cols_number - 1) : is_zero(mx.elements[r][c]) THEN -1
    ELSE CHOOSE c \in 0..(mx.cols_number - 1) :
             /\ ~is_zero(mx.elements[r][c])
             /\ \A d \in 0..(c - 1) : is_zero(mx.elements[r][d])

\* Row echelon form: a non-zero row follows a non-zero row only, and its
\* leading entry lies strictly to the right of the leading entry above.
InEchelonForm(mx) ==
    \A r \in 1..(mx.rows_number - 1) :
        LeadingCol(mx, r) # -1 =>
            /\ LeadingCol(mx, r - 1) # -1
            /\ LeadingCol(mx, r - 1) < LeadingCol(mx, r)

\* Reduced row echelon form: every leading entry is epsilon-equal to one
\* and is the only entry of its column that is not epsilon-zero.
InReducedForm(mx) ==
    /\ InEchelonForm(mx)
    /\ \A r \in 0..(mx.rows_number - 1) :
           LeadingCol(mx, r) # -1 =>
               /\ is_one(mx.elements[r][LeadingCol(mx, r)])
               /\ \A k \in 0..(mx.rows_number - 1) :
                      k # r => is_zero(mx.elements[k][LeadingCol(mx, r)])

\* C12: to_rref is idempotent: for every matrix A, to_rref(to_rref(A)) is
\* epsilon-equal to to_rref(A).
C12_RrefIdempotent ==
    (res.op = "to_rref" /\ Exact(to_rref(res.m)))
    => Matrix_epsilon_equals(to_rref(res.m), res.m)

\* C13: for every matrix A, to_rref(A) is in reduced row echelon form.
C13_RrefForm ==
    res.op = "to_rref" => InReducedForm(res.m)

\* C14: for every matrix A, the matrix returned by row_echelon(A) is in
\* row echelon form.
C14_EchelonForm ==
    res.op = "row_echelon" => InEchelonForm(res.m)

C16_CompanionNoInfluence ==
    (res.op = "to_rref_apply_to" /\ res.err = "Ok" /\ Exact(to_rref(m)))
    => res.origin = to_rref(m)

\* A reduction that changes both the subject and a companion of another
\* column count.
C16_Witness ==
    /\ res.op = "to_rref_apply_to"
    /\ res.err = "Ok"
    /\ res.other.cols_number # m.cols_number
    /\ res.origin # m
    /\ res.output # res.other
    /\ res.origin = to_rref(m)

\* ------------------------------------------------------------------------
\* Minors, cofactors and the adjugate
\* ------------------------------------------------------------------------

\* The matrix obtained by deleting row `row` and column `col` of mx.
Deleted(mx, row, col) == Matrix_new(Submatrix(mx, row, col))

\* C17: for all square matrices A and B of equal size, adj(A * B) is
\* epsilon-equal to adj(B) * adj(A).
C17_AdjProduct ==
    (/\ res.op = "multiply"
     /\ res.err = "Ok"
     /\ Square(m)
     /\ adj(res.m).err = "Ok" => Exact(adj(res.m).m)
     /\ (adj(res.other).err = "Ok" /\ adj(m).err = "Ok")
            => Exact(Mul(adj(res.other).m, adj(m).m)))
    => /\ adj(res.m).err = "Ok"
       /\ adj(res.other).err = "Ok"
       /\ adj(m).err = "Ok"
       /\ Matrix_epsilon_equals(adj(res.m).m, Mul(adj(res.other).m, adj(m).m))

\* C18: for every square n x n matrix A with n >= 2, get_minor(i, j) with
\* i < n and j < n returns the determinant of A without row i and column
\* j, get_cofactor(i, j) returns it multiplied by +1 when i + j is even
\* and by -1 otherwise, and both return IndexOutOfBounds when i >= n or
\* j >= n.
C18_MinorCofactor ==
    (/\ res.op \in {"get_minor", "get_cofactor"}
     /\ Square(m)
     /\ m.rows_number >= 2)
    => IF res.row >= m.rows_number \/ res.col >= m.cols_number
       THEN res.err = "IndexOutOfBounds"
       ELSE IsNum(ExactDet(Deleted(m, res.row, res.col))) =>
                /\ res.err = "Ok"
                /\ epsilon_equals(res.v,
                       ElemMul(FromInt(IF res.op = "get_cofactor" /\ (res.row + res.col) % 2 # 0
                                       THEN -1 ELSE 1),
                               ExactDet(Deleted(m, res.row, res.col))))

\* C19: get_minor, get_cofactor, get_cofactor_matrix and adj never abort:
\* for every matrix and index pair they return Ok, InvalidOperation,
\* IndexOutOfBounds or ShouldBeSquare.
C19_NeverAbort ==
    res.op \in {"get_minor", "get_cofactor", "get_cofactor_matrix", "adj"}
    => res.err \in {"Ok", "InvalidOperation", "IndexOutOfBounds", "ShouldBeSquare"}

\* C20: for every matrix A, can_be_inverted(A) returns true if and only if
\* inverse(A) returns Ok.
C20_CanBeInvertedAgrees ==
    (res.op = "can_be_inverted" /\ InverseExact(m))
    => (res.v <=> inverse(m).err = "Ok")

\* A matrix of three rows other than the identity that can be inverted,
\* and is.
C20_Witness ==
    /\ res.op = "can_be_inverted"
    /\ InverseExact(m)
    /\ m.rows_number = 3
    /\ m # identity(3)
    /\ res.v
    /\ inverse(m).err = "Ok"

\* ------------------------------------------------------------------------
\* The structure of a matrix and its mutators
\* ------------------------------------------------------------------------

\* The structural invariant of a matrix value.
WellFormed(mx) ==
    /\ mx.rows_number >= 1
    /\ mx.cols_number >= 1
    /\ DOMAIN mx.elements = 0..(mx.rows_number - 1)
    /\ \A r \in DOMAIN mx.elements : DOMAIN mx.elements[r] = 0..(mx.cols_number - 1)

\* C21: every matrix value has at least one row and one column, exactly
\* rows_number rows and cols_number entries in every row: Matrix::new
\* aborts on every input that would violate it, and it holds after every
\* sequence of mutator calls, whether they succeed or fail.
C21_StructuralInvariant ==
    res.err # "Panic" => WellFormed(m)

\* C22: whenever a mutator returns an error, the receiver is entry for
\* entry what it was before the call.
C22_ErrorLeavesReceiver ==
    (res.op # "new" /\ res.err # "Ok") => m = res.before

\* set_row refuses a vector that is longer than a row, on a row that
\* exists and whose entries differ from the vector's.
C22_Witness ==
    /\ res.op = "set_row"
    /\ res.err = "InvalidOperation"
    /\ res.args.row < m.rows_number
    /\ Len0(res.args.values) > m.cols_number
    /\ res.args.values[0] # m.elements[res.args.row][0]
    /\ m = res.before

\* ------------------------------------------------------------------------
\* Vectors
\* ------------------------------------------------------------------------

\* C23: add, subtract and dot fail when the two operands have different
\* lengths; dot never returns a value computed from a prefix of the longer
\* operand.
C23_VectorLengths ==
    (res.op \in {"add", "subtract", "dot"} /\ Len0(m) # Len0(res.other))
    => res.err # "Ok"

\* ------------------------------------------------------------------------
\* The cursors of the forward pass
\* ------------------------------------------------------------------------

\* The value the scan of the current column selects as the pivot.
SelectedPivot(st) ==
    get(st.origin, EchelonMaxIndex(st.origin, st.j, st.i, st.i), st.j).v

\* In every state of the loop: row <= col, col <= cols_number (col counts
\* the iterations), and the swap counter does not exceed the row cursor.
CursorInvariant ==
    res.op = "_row_echelon" =>
        /\ res.st.i <= res.st.j
        /\ res.st.j <= m.cols_number
        /\ res.st.i <= m.rows_number
        /\ res.st.swap_count <= res.st.i

\* Every iteration advances col by one, and advances row by one exactly
\* when the selected pivot is not epsilon-zero; otherwise row, the matrix
\* and the swap counter are unchanged.
CursorStep ==
    (res.op = "_row_echelon" /\ res'.op = "_row_echelon") =>
        /\ res'.st.j = res.st.j + 1
        /\ IF ~is_zero(SelectedPivot(res.st))
           THEN res'.st.i = res.st.i + 1
           ELSE /\ res'.st.i = res.st.i
                /\ res'.st.origin = res.st.origin
                /\ res'.st.output = res.st.output
                /\ res'.st.swap_count = res.st.swap_count

\* C24: the forward pass of _row_echelon starts at (row, col) = (0, 0);
\* every iteration advances col by exactly one, and row by exactly one if
\* and only if the selected pivot is not epsilon-zero (otherwise nothing
\* else changes); row <= col in every state, the loop ends after at most
\* cols_number iterations, and the swap counter never exceeds the row
\* cursor.
C24_EchelonCursors ==
    /\ []CursorInvariant
    /\ [][(res.op = "new" /\ res'.op = "_row_echelon")
            => (res'.st.i = 0 /\ res'.st.j = 0 /\ res'.st.swap_count = 0)]_vars
    /\ [][CursorStep]_vars

\* The loop has ended on a matrix of three rows after skipping a column
\* and swapping rows.
C24_Witness ==
    /\ res.op = "_row_echelon"
    /\ m.rows_number = 3
    /\ res.st.j = m.cols_number
    /\ res.st.i < res.st.j
    /\ res.st.i >= 1
    /\ res.st.swap_count >= 1

\* ------------------------------------------------------------------------
\* Pivot selection
\* ------------------------------------------------------------------------

\* The magnitude of the entry of row k in column j.
Magnitude(mx, k, j) == abs(get(mx, k, j).v)

\* No candidate of rows i.. has a magnitude epsilon-greater than row k's.
EpsilonMaximal(mx, i, j, k) ==
    \A c \in i..(mx.rows_number - 1) :
        ~epsilon_gt(Magnitude(mx, c, j), Magnitude(mx, k, j))

\* The forward pass does not swap, and does not count a swap, when the row
\* at the cursor is epsilon-maximal.
NoSwapStep ==
    (/\ res.op = "_row_echelon"
     /\ res'.op = "_row_echelon"
     /\ EpsilonMaximal(res.st.origin, res.st.i, res.st.j, res.st.i))
    => /\ res'.st.swap_count = res.st.swap_count
       /\ res'.st.origin.elements[res.st.i] = res.st.origin.elements[res.st.i]

\* C25: the scan selects a row of rows i.. ; among candidates of
\* epsilon-equal magnitude the lowest-index row is selected; when the row
\* at the cursor is epsilon-maximal it is selected, no swap is performed
\* and the swap counter is not incremented.
C25_PivotLowestIndex ==
    /\ [](res.op = "scan" =>
            /\ res.max_index \in res.i..(m.rows_number - 1)
            /\ \A k \in res.i..(res.max_index - 1) :
                   ~epsilon_equals(Magnitude(m, k, res.j), Magnitude(m, res.max_index, res.j))
            /\ EpsilonMaximal(m, res.i, res.j, res.i) => res.max_index = res.i)
    /\ [][NoSwapStep]_vars

\* C25 amended: the scan replaces the current best only by a candidate of
\* epsilon-greater magnitude: no candidate's magnitude is epsilon-greater
\* than the selected row's, every candidate of lower index has a smaller
\* magnitude (which may be epsilon-equal to the selected one's), and when
\* the row at the cursor is epsilon-maximal it is selected, no swap is
\* performed and the swap counter is not incremented.
C25_PivotSelection ==
    /\ [](res.op = "scan" =>
            /\ res.max_index \in res.i..(m.rows_number - 1)
            /\ EpsilonMaximal(m, res.i, res.j, res.max_index)
            /\ \A k \in res.i..(res.max_index - 1) :
                   ElemLt(Magnitude(m, k, res.j), Magnitude(m, res.max_index, res.j))
            /\ EpsilonMaximal(m, res.i, res.j, res.i) => res.max_index = res.i)
    /\ [][NoSwapStep]_vars

\* The scan passes over a row that is epsilon-equal to the row at the
\* cursor and selects a later row that is epsilon-equal to the row passed
\* over.
C25_Witness ==
    /\ res.op = "scan"
    /\ res.max_index = res.i + 2
    /\ epsilon_equals(Magnitude(m, res.i, res.j), Magnitude(m, res.i + 1, res.j))
    /\ epsilon_equals(Magnitude(m, res.i + 1, res.j), Magnitude(m, res.max_index, res.j))

\* ------------------------------------------------------------------------
\* The companion of a reduction
\* ------------------------------------------------------------------------

\* C26: the row operations of both passes are applied to the companion as
\* to the subject; for every matrix A with m rows, singular or not, with
\* (R, T) = to_rref_apply_to(A, identity(m)), T * A is epsilon-equal to R.
C26_CompanionRecordsReduction ==
    (/\ res.op = "to_rref_apply_to"
     /\ res.err = "Ok"
     /\ res.other = identity(m.rows_number)
     /\ Exact(Mul(res.output, m)))
    => /\ res.output.rows_number = m.rows_number
       /\ res.output.cols_number = m.rows_number
       /\ Matrix_epsilon_equals(Mul(res.output, m), res.origin)

\* ------------------------------------------------------------------------
\* The factors recorded in L
\* ------------------------------------------------------------------------

\* The factor of row k against the pivot row of the loop state st.
LupFactor(st, k) == ElemDiv(get(st.u, k, st.j).v, get(st.u, st.i, st.j).v)

\* An iteration with a pivot that is not epsilon-zero stores in L[k][i],
\* for every row k below the pivot row, the factor of row k, and changes
\* no other entry of L; an iteration that skips the column changes none.
LupRecords ==
    (res.op = "lup_loop" /\ res'.op = "lup_loop") =>
        \A r, c \in 0..(m.rows_number - 1) :
            IF /\ ~is_zero(get(res.st.u, res.st.i, res.st.j).v)
               /\ c = res.st.i
               /\ r > res.st.i
            THEN res'.st.l.elements[r][c] = LupFactor(res.st, r)
            ELSE res'.st.l.elements[r][c] = res.st.l.elements[r][c]

\* The columns of L from the row cursor on, which no pivot has written,
\* are those of the identity.
LupUnwritten ==
    res.op = "lup_loop" =>
        \A r \in 0..(m.rows_number - 1) : \A c \in res.st.i..(m.rows_number - 1) :
            res.st.l.elements[r][c] = IF r = c THEN one ELSE zero

\* C27: whenever row k of U is eliminated against pivot row i with factor
\* f = U[k][j] / U[i][j], L[k][i] holds exactly f; each L[k][i] with k > i
\* is written at most once, and the entries of L of rows never used as a
\* pivot stay those of the identity.
C27_LRecordsFactors ==
    /\ []LupUnwritten
    /\ [][LupRecords]_vars

\* ------------------------------------------------------------------------
\* Writes
\* ------------------------------------------------------------------------

\* mx is before with row `row` replaced by values, entry by entry.
RowWritten(mx, before, row, values) ==
    /\ mx.rows_number = before.rows_number
    /\ mx.cols_number = before.cols_number
    /\ \A r \in 0..(before.rows_number - 1) : \A c \in 0..(before.cols_number - 1) :
           mx.elements[r][c] = IF r = row THEN values[c] ELSE before.elements[r][c]

\* C28: after a successful set(r, c, v), get(r, c) returns exactly v and
\* every other entry is unchanged; the same holds entry-wise for the values
\* written by set_row, scale_row and add_scaled_row_from_to.  (Negative
\* zero and positive zero are the same rational.)
C28_WritesPreserveValues ==
    res.err = "Ok" =>
        CASE res.op = "set" ->
                 /\ get(m, res.args.row, res.args.col) = [err |-> "Ok", v |-> res.args.value]
                 /\ RowWritten(m, res.before, res.args.row,
                               [res.before.elements[res.args.row]
                                    EXCEPT ![res.args.col] = res.args.value])
          [] res.op = "set_row" ->
                 RowWritten(m, res.before, res.args.row, res.args.values)
          [] res.op = "scale_row" ->
                 RowWritten(m, res.before, res.args.row,
                            Vector_scale(res.before.elements[res.args.row], res.args.scalar))
          [] res.op = "add_scaled_row_from_to" ->
                 RowWritten(m, res.before, res.args.to,
                            Vector_add(res.before.elements[res.args.to],
                                       Vector_scale(res.before.elements[res.args.from],
                                                    res.args.scalar)))
          [] OTHER -> TRUE

\* ------------------------------------------------------------------------
\* Invertibility and shape
\* ------------------------------------------------------------------------

\* C29: inverse returns Ok and can_be_inverted returns true only for square
\* matrices: for every matrix whose row count differs from its column
\* count, inverse returns an error and can_be_inverted returns false.
C29_InvertibleOnlySquare ==
    m.rows_number # m.cols_number =>
        /\ res.op = "inverse" => res.err # "Ok"
        /\ res.op = "can_be_inverted" => res.v = FALSE

\* C30: epsilon_equals returns true only when both operands have identical
\* dimensions and every pair of corresponding entries differs by less than
\* 1e-7; matrices that differ in row count or column count are never
\* reported epsilon-equal.
C30_EqualsOnlySameShape ==
    (res.op = "epsilon_equals" /\ res.v) =>
        /\ m.rows_number = res.other.rows_number
        /\ m.cols_number = res.other.cols_number
        /\ \A r \in 0..(m.rows_number - 1) : \A c \in 0..(m.cols_number - 1) :
               epsilon_equals(m.elements[r][c], res.other.elements[r][c])

====
